---- MODULE Spec2Model ----
(***************************************************************************)
(* Model of send_whatsapp_upload_and_broadcast.py: configuration merging   *)
(* (process environment, .env file, command line), validation, recipient   *)
(* loading, the single media upload and the sequential broadcast loop with *)
(* its failure bookkeeping, failure export and exit code.                  *)
(*                                                                         *)
(* A Python str is a sequence of tokens (<<"promo", ":", "en_US">>, a      *)
(* phone number is a sequence of one-character tokens); None and the bool  *)
(* True returned by get_cli_flag are the two reserved values below.        *)
(***************************************************************************)
EXTENDS Integers, Sequences, FiniteSets, TLC

\* ------------------------------------------------------------------ bounds
MaxRows == 3
MaxArgs == 2
MaxEnvLines == 2

\* ------------------------------------------------------------------ values
NoneV == <<"<None>">>
TrueV == <<"<True>">>
Empty == <<>>

Truthy(v) == v # NoneV /\ v # Empty

EnvKeys ==
  {"WA_PHONE_NUMBER_ID", "WA_ACCESS_TOKEN", "WA_GRAPH_VERSION", "CSV_PATH",
   "PDF_PATH", "CAPTION", "FILENAME", "RATE", "TEMPLATE", "DRY_RUN",
   "LOG_LEVEL", "FAILED_CSV_PATH"}

\* os.getenv(k, default)
Getenv(env, k, default) == IF env[k] = NoneV THEN default ELSE env[k]

\* str.lower() on the tokens the model uses
LowerTok(t) ==
  IF t = "TRUE" THEN "true"
  ELSE IF t = "True" THEN "true"
  ELSE IF t = "YES" THEN "yes"
  ELSE IF t = "FALSE" THEN "false"
  ELSE t

Lower(s) == [n \in 1..Len(s) |-> LowerTok(s[n])]

\* float(): the decimal literals the model draws RATE from, in tenths of a
\* second; every other string raises ValueError
FloatTable ==
  ("2" :> 20) @@ ("2.0" :> 20) @@ ("0.1" :> 1) @@ ("0.5" :> 5) @@ (".5" :> 5)
  @@ ("0" :> 0) @@ ("-1" :> -10)

IsFloat(s) == Len(s) = 1 /\ s[1] \in DOMAIN FloatTable

ToFloat(s) == FloatTable[s[1]]

\* the files that exist on disk (os.path.isfile)
ExistingFiles == {<<"numbers.csv">>, <<"other.csv">>, <<"offer.pdf">>, <<"other.pdf">>}

IsFile(p) == p \in ExistingFiles

\* ------------------------------------------------------------ command line
\* One element of sys.argv[1:]: name is the text before the first "=",
\* eq tells whether an "=" is there, val is the text after it.
Arg(name, eq, val) == [name |-> name, eq |-> eq, val |-> val]

RECURSIVE get_cli_flag(_, _, _)
get_cli_flag(args, name, default) ==
  IF args = <<>> THEN default
  ELSE IF Head(args).name = name /\ ~Head(args).eq THEN TrueV
  ELSE IF Head(args).name = name /\ Head(args).eq THEN Head(args).val
  ELSE get_cli_flag(Tail(args), name, default)

\* ------------------------------------------------------------------- .env
\* One line of the .env file, already split: kind is "kv" (KEY=VALUE),
\* "comment", "blank" or "malformed" (no "=").
Line(kind, k, v) == [kind |-> kind, k |-> k, v |-> v]

RECURSIVE LStrip(_, _)
LStrip(s, q) == IF s # <<>> /\ Head(s) = q THEN LStrip(Tail(s), q) ELSE s

RECURSIVE RStrip(_, _)
RStrip(s, q) ==
  IF s # <<>> /\ s[Len(s)] = q THEN RStrip(SubSeq(s, 1, Len(s) - 1), q) ELSE s

Strip(s, q) == RStrip(LStrip(s, q), q)

\* v.strip().strip("'").strip('"')
StripValue(v) == Strip(Strip(Strip(v, " "), "'"), "\"")

RECURSIVE load_env_file(_)
load_env_file(lines) ==
  IF lines = <<>> THEN [k \in EnvKeys |-> NoneV]
  ELSE LET front == load_env_file(SubSeq(lines, 1, Len(lines) - 1))
           last  == lines[Len(lines)]
       IN  IF last.kind = "kv"
           THEN [front EXCEPT ![last.k] = StripValue(last.v)]
           ELSE front

apply_env_clobber(env, vals) ==
  [k \in EnvKeys |-> IF vals[k] # NoneV THEN vals[k] ELSE env[k]]

apply_env(env, vals) ==
  [k \in EnvKeys |-> IF vals[k] # NoneV /\ env[k] = NoneV THEN vals[k] ELSE env[k]]

\* ----------------------------------------------------------- CLI overrides
ValueFlags ==
  ("--csv" :> "CSV_PATH") @@ ("--pdf" :> "PDF_PATH") @@ ("--caption" :> "CAPTION")
  @@ ("--filename" :> "FILENAME") @@ ("--rate" :> "RATE")
  @@ ("--template" :> "TEMPLATE")

FlagOfKey(k) == CHOOSE f \in DOMAIN ValueFlags : ValueFlags[f] = k

\* the dict cli_overrides of main(): NoneV where no override is made
cli_overrides(args) ==
  [k \in EnvKeys |->
     IF k \in {ValueFlags[f] : f \in DOMAIN ValueFlags}
     THEN get_cli_flag(args, FlagOfKey(k), NoneV)
     ELSE IF k = "DRY_RUN" /\ Truthy(get_cli_flag(args, "--dry-run", Empty))
          THEN <<"true">>
          ELSE NoneV]

\* os.environ[key] = value raises TypeError unless value is a str
OverridesRaise(ov) == \E k \in EnvKeys : ov[k] = TrueV

ApplyOverrides_keep(env, ov) ==
  [k \in EnvKeys |-> IF ov[k] # NoneV /\ env[k] = NoneV THEN ov[k] ELSE env[k]]

\* for key, value in cli_overrides.items(): os.environ[key] = value
ApplyOverrides(env, ov) == [k \in EnvKeys |-> IF ov[k] # NoneV THEN ov[k] ELSE env[k]]

\* --------------------------------------------------------- configuration
IsDryRun(v) == Lower(v) \in {<<"1">>, <<"true">>, <<"yes">>}

GatherConfig(env) ==
  [phone_number_id |-> env["WA_PHONE_NUMBER_ID"],
   access_token    |-> env["WA_ACCESS_TOKEN"],
   graph_ver       |-> Getenv(env, "WA_GRAPH_VERSION", <<"v20.0">>),
   csv_path        |-> env["CSV_PATH"],
   pdf_path        |-> env["PDF_PATH"],
   caption         |-> Getenv(env, "CAPTION", Empty),
   filename        |-> env["FILENAME"],
   rate            |-> Getenv(env, "RATE", <<"0.5">>),
   rate_s          |-> 0,
   template        |-> Getenv(env, "TEMPLATE", Empty),
   dry_run         |-> IsDryRun(Getenv(env, "DRY_RUN", <<"false">>))]

NoConfig == GatherConfig([k \in EnvKeys |-> NoneV])

HasColon(s) == \E n \in 1..Len(s) : s[n] = ":"

ErrRequired(k) == <<k, "is required">>
ErrPdf == <<"PDF file not found">>
ErrCsv == <<"CSV file not found">>
ErrRateNeg == <<"RATE must be non-negative">>
ErrRateNum == <<"RATE must be a valid number">>
ErrTemplate == <<"TEMPLATE must be in format 'name:lang'">>

Opt(cond, e) == IF cond THEN <<e>> ELSE <<>>

validate_first_only(config) ==
  LET all ==
        Opt(~Truthy(config.phone_number_id), ErrRequired("WA_PHONE_NUMBER_ID"))
        \o Opt(~Truthy(config.access_token), ErrRequired("WA_ACCESS_TOKEN"))
        \o Opt(~Truthy(config.csv_path), ErrRequired("CSV_PATH"))
        \o Opt(~Truthy(config.pdf_path), ErrRequired("PDF_PATH"))
        \o Opt(Truthy(config.pdf_path) /\ ~IsFile(config.pdf_path), ErrPdf)
        \o Opt(Truthy(config.csv_path) /\ ~IsFile(config.csv_path), ErrCsv)
        \o Opt(IsFloat(config.rate) /\ ToFloat(config.rate) < 0, ErrRateNeg)
        \o Opt(~IsFloat(config.rate), ErrRateNum)
        \o Opt(Truthy(config.template) /\ ~HasColon(config.template), ErrTemplate)
  IN  IF all = <<>> THEN all ELSE <<Head(all)>>

\* the list `errors` built by validate_configuration, in the order of the code
validate_configuration(config) ==
  Opt(~Truthy(config.phone_number_id), ErrRequired("WA_PHONE_NUMBER_ID"))
  \o Opt(~Truthy(config.access_token), ErrRequired("WA_ACCESS_TOKEN"))
  \o Opt(~Truthy(config.csv_path), ErrRequired("CSV_PATH"))
  \o Opt(~Truthy(config.pdf_path), ErrRequired("PDF_PATH"))
  \o Opt(Truthy(config.pdf_path) /\ ~IsFile(config.pdf_path), ErrPdf)
  \o Opt(Truthy(config.csv_path) /\ ~IsFile(config.csv_path), ErrCsv)
  \o Opt(IsFloat(config.rate) /\ ToFloat(config.rate) < 0, ErrRateNeg)
  \o Opt(~IsFloat(config.rate), ErrRateNum)
  \o Opt(Truthy(config.template) /\ ~HasColon(config.template), ErrTemplate)

\* config['rate'] = rate: the float replaces the string when float() succeeds
ConvertRate(config) ==
  IF IsFloat(config.rate) THEN [config EXCEPT !.rate_s = ToFloat(config.rate)]
  ELSE config

\* -------------------------------------------------------- recipient loader
Digits == {"0", "1", "2", "3", "4", "5", "6", "7", "8", "9"}

MinDigits == 8

\* re.sub(r"\D", "", raw)
RECURSIVE sanitize_phone(_)
sanitize_phone(raw) ==
  IF raw = <<>> THEN <<>>
  ELSE IF Head(raw) \in Digits THEN <<Head(raw)>> \o sanitize_phone(Tail(raw))
  ELSE sanitize_phone(Tail(raw))

validate_phone_number_strict(phone) ==
  Len(phone) > MinDigits /\ \A n \in 1..Len(phone) : phone[n] \in Digits

validate_phone_number(phone) ==
  Len(phone) >= MinDigits /\ \A n \in 1..Len(phone) : phone[n] \in Digits

\* A row is what csv.reader yields: a sequence of fields, <<>> for an empty
\* line. Only row[0], stripped of blanks, is used.
RECURSIVE read_numbers_from_csv(_)
read_numbers_from_csv(rows) ==
  IF rows = <<>> THEN <<>>
  ELSE LET row    == Head(rows)
           raw    == Strip(row[1], " ")
           digits == sanitize_phone(raw)
           rest   == read_numbers_from_csv(Tail(rows))
       IN  IF row = <<>> THEN rest
           ELSE IF raw = <<>> THEN rest
           ELSE IF ~validate_phone_number(digits) THEN rest
           ELSE <<digits>> \o rest

\* invalid_count: the rows that had a non-blank first field and were skipped
\* with a warning.
RECURSIVE invalid_count(_)
invalid_count(rows) ==
  IF rows = <<>> THEN 0
  ELSE LET row  == Head(rows)
           raw  == Strip(row[1], " ")
           rest == invalid_count(Tail(rows))
       IN  IF row = <<>> THEN rest
           ELSE IF raw = <<>> THEN rest
           ELSE IF ~validate_phone_number(sanitize_phone(raw)) THEN rest + 1
           ELSE rest

\* --------------------------------------------------------- delivery client
\* What requests.post does: it returns a response (status code, and whether
\* the parsed body carries an id) or raises requests.RequestException.
Responses ==
  {[kind |-> "resp", status |-> 200, id |-> TRUE],
   [kind |-> "resp", status |-> 200, id |-> FALSE],
   [kind |-> "resp", status |-> 300, id |-> FALSE],
   [kind |-> "timeout", status |-> 0, id |-> FALSE]}

NoResp == [kind |-> "none", status |-> 0, id |-> FALSE]

MediaId == <<"MEDIA_1">>
DryRunMediaId == <<"DRY_RUN_MEDIA_ID">>
NoMedia == NoneV

upload_raises_unless_status(resp) == resp.kind = "timeout" \/ resp.status >= 300

\* upload_media raises: RequestException, status >= 300, or no id in the body
upload_raises(resp) ==
  resp.kind = "timeout" \/ resp.status >= 300 \/ ~resp.id

post_raises_like_upload(resp) ==
  resp.kind = "timeout" \/ resp.status >= 300 \/ ~resp.id

\* post_json_messages raises: RequestException or status >= 300
post_raises(resp) == resp.kind = "timeout" \/ resp.status >= 300

\* send_template / send_document_by_id: the message id returned
message_id(resp) == IF resp.id THEN <<"wamid">> ELSE <<"unknown">>

\* str(e) of the exception a send raises
ErrorMessage(resp) ==
  IF resp.kind = "timeout" THEN <<"Read timed out">>
  ELSE <<"Send failed:", resp.status>>

\* ---------------------------------------------------------- failure export
Header == <<"phone_number", "error_message", "timestamp">>

NoFile == [exists |-> FALSE, header |-> <<>>, rows |-> <<>>]

ExportRow(entry) == <<entry.phone_number, entry.error_message, entry.timestamp>>

ExportRows(failed) == [n \in 1..Len(failed) |-> ExportRow(failed[n])]

write_failed_numbers_appending(old, failed) ==
  IF failed = <<>> THEN old
  ELSE [exists |-> TRUE, header |-> Header, rows |-> old.rows \o ExportRows(failed)]

\* the file write_failed_numbers_to_csv leaves at output_path, where `old`
\* was: nothing is written for an empty list, else the file is overwritten.
\* The write is taken to succeed: the handler that logs and swallows an
\* OSError (or the TypeError of a bare --failed-csv) is outside the model.
write_failed_numbers_to_csv(old, failed) ==
  IF failed = <<>> THEN old
  ELSE [exists |-> TRUE, header |-> Header, rows |-> ExportRows(failed)]

ExportPaths ==
  {<<"failed.csv">>, <<"out.csv">>, <<"env_failed.csv">>, <<"file_failed.csv">>}

\* main(): the export is written when failure_count > 0 and not dry-run
should_export(failure_count, dry_run) == failure_count > 0 /\ ~dry_run

exit_code_always_zero(failure_count) == 0

\* main(): sys.exit(1) if failure_count > 0 else sys.exit(0)
final_exit_code(failure_count) == IF failure_count > 0 THEN 1 ELSE 0

no_recipients_never(nums) == FALSE

\* main(): `if not numbers: fail(...)`
no_recipients(nums) == nums = <<>>

\* ------------------------------------------------------------------- state
VARIABLES
  argv,           \* sys.argv[1:]
  environ0,       \* os.environ when the process starts
  environ,        \* os.environ
  env_lines,      \* the lines of the .env file
  csv_rows,       \* the rows of the recipient file
  files,          \* the failure-export files on disk, by path
  files0,         \* the same when the process starts
  pc,             \* position in main()
  log_level,
  config,
  errors,         \* validation_errors
  validated,      \* validate_configuration has returned
  tpl_name, tpl_lang,
  numbers,
  csv_read,       \* the recipient file has been opened
  media_id,
  i,              \* loop index of main(), 1-based
  success_count, failure_count, failed_numbers,
  net,            \* the network calls made so far, in order
  last_resp,      \* the outcome of the latest network call
  simulated,      \* the sends a dry-run has logged instead of making
  sleeps,         \* time.sleep calls made
  summarized,     \* the final summary has been logged
  exit_code

vars ==
  <<argv, environ0, environ, env_lines, csv_rows, files, files0, pc, log_level,
    config, errors, validated, tpl_name, tpl_lang, numbers, csv_read, media_id, i,
    success_count, failure_count, failed_numbers, net, last_resp, simulated,
    sleeps, summarized, exit_code>>

inputs == <<argv, environ0, env_lines, csv_rows, files0>>

cfgvars == <<log_level, config, errors, validated, tpl_name, tpl_lang>>

loopvars == <<i, success_count, failure_count, failed_numbers>>

NoExit == -1

\* datetime.now(): a logical clock that advances with every call and pause
Now == Len(net) + sleeps

\* ------------------------------------------------------------------ inputs
SeqsUpTo(S, n) == UNION {[1..m -> S] : m \in 0..n}

WithKeys(base, kv) == [k \in EnvKeys |-> IF k \in DOMAIN kv THEN kv[k] ELSE base[k]]

EmptyEnv == [k \in EnvKeys |-> NoneV]

\* an environment that configures a valid real run
BaseEnv ==
  WithKeys(EmptyEnv,
    ("WA_PHONE_NUMBER_ID" :> <<"1055">>) @@ ("WA_ACCESS_TOKEN" :> <<"EAAG">>)
    @@ ("CSV_PATH" :> <<"numbers.csv">>) @@ ("PDF_PATH" :> <<"offer.pdf">>))

RowA == << <<"+", "2", "7", "8", "2", "1", "2", "3", "4", "5", "6", "7">> >>
RowB == << <<"2", "7", "8", "2", "9", "8", "7", "6", "5", "4", "3">>, <<"Bob">> >>
RowBad == << <<"a", "b", "c">> >>
RowEmpty == <<>>

NoFiles == [p \in ExportPaths |-> NoFile]

PriorExport ==
  [exists |-> TRUE, header |-> Header,
   rows |-> << <<sanitize_phone(RowB[1]), <<"Send failed:", 500>>, 0>> >>]

\* Inputs that exercise validation: every combination of present, absent and
\* invalid settings in the process environment.
ValidationEnvs ==
  {WithKeys(EmptyEnv,
      ("WA_PHONE_NUMBER_ID" :> id) @@ ("WA_ACCESS_TOKEN" :> tok)
      @@ ("CSV_PATH" :> csv) @@ ("PDF_PATH" :> pdf) @@ ("RATE" :> rate)
      @@ ("TEMPLATE" :> tpl)) :
     id \in {NoneV, <<"1055">>}, tok \in {NoneV, <<"EAAG">>},
     csv \in {NoneV, <<"numbers.csv">>, <<"gone.csv">>},
     pdf \in {NoneV, <<"offer.pdf">>, <<"gone.pdf">>},
     rate \in {NoneV, <<"2">>, <<"-1">>, <<"abc">>},
     tpl \in {NoneV, <<"promo", ":", "en_US">>, <<"promo">>}}

\* Inputs that exercise the merge, one key at a time: the value the process
\* environment, the .env file and the command line may hold for the key.
MergeKeys ==
  {"WA_PHONE_NUMBER_ID", "CSV_PATH", "PDF_PATH", "CAPTION", "FILENAME", "RATE",
   "TEMPLATE", "DRY_RUN", "LOG_LEVEL", "FAILED_CSV_PATH"}

EnvVals ==
  ("WA_PHONE_NUMBER_ID" :> {<<"1055">>, Empty}) @@ ("CSV_PATH" :> {<<"numbers.csv">>})
  @@ ("PDF_PATH" :> {<<"offer.pdf">>}) @@ ("CAPTION" :> {NoneV, <<"env caption">>})
  @@ ("FILENAME" :> {NoneV, <<"Env.pdf">>}) @@ ("RATE" :> {NoneV, <<"0">>})
  @@ ("TEMPLATE" :> {NoneV, <<"promo", ":", "en_US">>})
  @@ ("DRY_RUN" :> {NoneV, <<"false">>, <<"TRUE">>})
  @@ ("LOG_LEVEL" :> {NoneV, <<"DEBUG">>})
  @@ ("FAILED_CSV_PATH" :> {NoneV, <<"env_failed.csv">>})

FileVal ==
  ("WA_PHONE_NUMBER_ID" :> <<"2066">>) @@ ("CSV_PATH" :> <<"other.csv">>)
  @@ ("PDF_PATH" :> <<"other.pdf">>) @@ ("CAPTION" :> <<"'", "file caption", "'">>)
  @@ ("FILENAME" :> <<"File.pdf">>) @@ ("RATE" :> <<"2">>)
  @@ ("TEMPLATE" :> <<"hello", ":", "en">>) @@ ("DRY_RUN" :> <<"true">>)
  @@ ("LOG_LEVEL" :> <<"ERROR">>) @@ ("FAILED_CSV_PATH" :> <<"file_failed.csv">>)

CliArgs ==
  ("WA_PHONE_NUMBER_ID" :> {})
  @@ ("CSV_PATH" :> {Arg("--csv", TRUE, <<"other.csv">>), Arg("--csv", TRUE, <<"gone.csv">>)})
  @@ ("PDF_PATH" :> {Arg("--pdf", TRUE, <<"other.pdf">>)})
  @@ ("CAPTION" :> {Arg("--caption", TRUE, <<"cli caption">>), Arg("--caption", TRUE, Empty)})
  @@ ("FILENAME" :> {Arg("--filename", TRUE, <<"Cli.pdf">>)})
  @@ ("RATE" :> {Arg("--rate", TRUE, <<"0.1">>), Arg("--rate", FALSE, Empty)})
  @@ ("TEMPLATE" :> {Arg("--template", TRUE, <<"promo">>), Arg("--template", TRUE, <<"cli", ":", "fr">>)})
  @@ ("DRY_RUN" :> {Arg("--dry-run", FALSE, Empty), Arg("--dry-run", TRUE, <<"false">>)})
  @@ ("LOG_LEVEL" :> {Arg("--log-level", TRUE, <<"WARNING">>), Arg("--log-level", FALSE, Empty)})
  @@ ("FAILED_CSV_PATH" :> {Arg("--failed-csv", TRUE, <<"out.csv">>)})

EnvLinesFor(k) == {Line("kv", k, FileVal[k]), Line("comment", k, Empty), Line("malformed", k, Empty)}

\* Inputs that exercise the broadcast: recipient files of up to MaxRows rows,
\* with and without a template, dry-run or real, with or without the export
\* file of a prior run.
RunEnvs ==
  {WithKeys(BaseEnv, ("TEMPLATE" :> tpl) @@ ("DRY_RUN" :> dry)) :
     tpl \in {NoneV, <<"promo", ":", "en_US">>}, dry \in {NoneV, <<"true">>}}

StartState(e, lines, args, rows, f) ==
  /\ environ0 = e /\ environ = e
  /\ env_lines = lines
  /\ argv = args
  /\ csv_rows = rows
  /\ files0 = f /\ files = f
  /\ pc = "start"
  /\ log_level = NoneV
  /\ config = NoConfig
  /\ errors = <<>>
  /\ validated = FALSE
  /\ tpl_name = NoneV /\ tpl_lang = NoneV
  /\ numbers = <<>>
  /\ csv_read = FALSE
  /\ media_id = NoMedia
  /\ i = 0 /\ success_count = 0 /\ failure_count = 0 /\ failed_numbers = <<>>
  /\ net = <<>> /\ last_resp = NoResp /\ simulated = <<>> /\ sleeps = 0
  /\ summarized = FALSE
  /\ exit_code = NoExit

InitValidation ==
  \E e \in ValidationEnvs : StartState(e, <<>>, <<>>, <<RowA, RowBad, RowEmpty, RowB>>, NoFiles)

InitMerge ==
  \E k \in MergeKeys :
    \E v \in EnvVals[k], lines \in SeqsUpTo(EnvLinesFor(k), MaxEnvLines),
       args \in SeqsUpTo(CliArgs[k], MaxArgs) :
      StartState(WithKeys(BaseEnv, k :> v), lines, args, <<RowA>>, NoFiles)

InitRun ==
  \E e \in RunEnvs, rows \in SeqsUpTo({RowA, RowB, RowBad}, MaxRows),
     f \in {NoFiles, [NoFiles EXCEPT ![<<"failed.csv">>] = PriorExport]} :
    StartState(e, <<>>, <<>>, rows, f)

\* Template references that hold the delimiter but are not one name and one
\* language code: no name, no language, neither, and two delimiters.
TemplateRefs ==
  {<<":", "en_US">>, <<"promo", ":">>, <<":">>, <<"a", ":", "b", ":", "c">>}

InitTemplate ==
  \E tpl \in TemplateRefs :
    StartState(WithKeys(BaseEnv, "TEMPLATE" :> tpl), <<>>, <<>>, <<RowA, RowB>>, NoFiles)

Init == InitValidation \/ InitMerge \/ InitRun \/ InitTemplate

\* ----------------------------------------------------------------- actions
iovars == <<net, last_resp, simulated, sleeps>>

\* fail(): log, print and sys.exit(1)
Fail == pc' = "done" /\ exit_code' = 1

\* main(), logging set up before the .env file is read; setup_logging calls
\* log_level.upper(), which raises outside the try block when the flag is bare
SetupLogging ==
  /\ pc = "start"
  /\ log_level' = get_cli_flag(argv, "--log-level", Getenv(environ, "LOG_LEVEL", <<"INFO">>))
  /\ IF log_level' = TrueV
     THEN Fail
     ELSE pc' = "load_env" /\ UNCHANGED exit_code
  /\ UNCHANGED <<inputs, environ, files, config, errors, validated, tpl_name,
                 tpl_lang, numbers, csv_read, media_id, loopvars, iovars, summarized>>

\* apply_env(load_env_file(env_path))
LoadEnv ==
  /\ pc = "load_env"
  /\ environ' = apply_env(environ, load_env_file(env_lines))
  /\ pc' = "cli"
  /\ UNCHANGED <<inputs, files, cfgvars, numbers, csv_read, media_id, loopvars,
                 iovars, summarized, exit_code>>

\* the CLI overrides written into os.environ; a non-str value raises
\* TypeError, which the outer handler turns into fail()
CliOverrides ==
  /\ pc = "cli"
  /\ LET ov == cli_overrides(argv)
     IN  IF OverridesRaise(ov)
         THEN Fail /\ UNCHANGED environ
         ELSE /\ environ' = ApplyOverrides(environ, ov)
              /\ pc' = "gather"
              /\ UNCHANGED exit_code
  /\ UNCHANGED <<inputs, files, cfgvars, numbers, csv_read, media_id, loopvars,
                 iovars, summarized>>

Gather ==
  /\ pc = "gather"
  /\ config' = GatherConfig(environ)
  /\ pc' = "validate"
  /\ UNCHANGED <<inputs, environ, files, log_level, errors, validated, tpl_name,
                 tpl_lang, numbers, csv_read, media_id, loopvars, iovars, summarized,
                 exit_code>>

Validate ==
  /\ pc = "validate"
  /\ errors' = validate_configuration(config)
  /\ config' = ConvertRate(config)
  /\ validated' = TRUE
  /\ IF errors' # <<>>
     THEN Fail
     ELSE pc' = "normalize" /\ UNCHANGED exit_code
  /\ UNCHANGED <<inputs, environ, files, log_level, tpl_name, tpl_lang, numbers,
                 csv_read, media_id, loopvars, iovars, summarized>>

\* os.path.basename on the paths the model uses (none has a directory part)
Basename(path) == path

RECURSIVE IndexOfColon(_, _)
IndexOfColon(s, n) ==
  IF n > Len(s) THEN 0 ELSE IF s[n] = ":" THEN n ELSE IndexOfColon(s, n + 1)

\* template.split(":", 1)
SplitTemplate(s) ==
  LET c == IndexOfColon(s, 1)
  IN  <<SubSeq(s, 1, c - 1), SubSeq(s, c + 1, Len(s))>>

\* default filename and template parsing
Normalize ==
  /\ pc = "normalize"
  /\ config' = IF Truthy(config.filename) THEN config
               ELSE [config EXCEPT !.filename = Basename(config.pdf_path)]
  /\ IF Truthy(config.template)
     THEN /\ tpl_name' = SplitTemplate(config.template)[1]
          /\ tpl_lang' = SplitTemplate(config.template)[2]
     ELSE UNCHANGED <<tpl_name, tpl_lang>>
  /\ pc' = "load_csv"
  /\ UNCHANGED <<inputs, environ, files, log_level, errors, validated, numbers,
                 csv_read, media_id, loopvars, iovars, summarized, exit_code>>

LoadRecipients ==
  /\ pc = "load_csv"
  /\ csv_read' = TRUE
  /\ numbers' = read_numbers_from_csv(csv_rows)
  /\ IF no_recipients(numbers')
     THEN Fail
     ELSE pc' = "upload" /\ UNCHANGED exit_code
  /\ UNCHANGED <<inputs, environ, files, cfgvars, media_id, loopvars, iovars,
                 summarized>>

uses_network_always(cfg) == TRUE

\* main(): `if config['dry_run']` chooses the simulation over the network
uses_network(cfg) == ~cfg.dry_run

Call(op, idx, to, media, raised) ==
  [op |-> op, idx |-> idx, to |-> to, media |-> media, raised |-> raised]

StartLoop ==
  /\ i' = 1 /\ success_count' = 0 /\ failure_count' = 0 /\ failed_numbers' = <<>>

DryRunUpload ==
  /\ pc = "upload"
  /\ config.dry_run
  /\ media_id' = DryRunMediaId
  /\ StartLoop
  /\ pc' = "iter"
  /\ UNCHANGED <<inputs, environ, files, cfgvars, numbers, csv_read, iovars,
                 summarized, exit_code>>

UploadMedia ==
  /\ pc = "upload"
  /\ uses_network(config)
  /\ \E resp \in Responses :
       /\ last_resp' = resp
       /\ net' = Append(net, Call("upload", 0, NoneV, NoMedia, upload_raises(resp)))
       /\ IF upload_raises(resp)
          THEN Fail /\ UNCHANGED <<media_id, loopvars>>
          ELSE /\ media_id' = MediaId
               /\ StartLoop
               /\ pc' = "iter"
               /\ UNCHANGED exit_code
  /\ UNCHANGED <<inputs, environ, files, cfgvars, numbers, csv_read, simulated,
                 sleeps, summarized>>

RecordFailure_uncounted(resp) ==
  /\ failed_numbers' =
       Append(failed_numbers,
              [phone_number |-> numbers[i], error_message |-> ErrorMessage(resp),
               timestamp |-> Now + 1])
  /\ UNCHANGED <<i, success_count, failure_count>>

\* the except clause of the loop body
RecordFailure(resp) ==
  /\ failure_count' = failure_count + 1
  /\ failed_numbers' =
       Append(failed_numbers,
              [phone_number |-> numbers[i], error_message |-> ErrorMessage(resp),
               timestamp |-> Now + 1])
  /\ UNCHANGED <<i, success_count>>

RecordSuccess ==
  /\ success_count' = success_count + 1
  /\ UNCHANGED <<i, failure_count, failed_numbers>>

DryRunSend ==
  /\ pc = "iter"
  /\ config.dry_run
  /\ simulated' = Append(simulated, Call("dry-run", i, numbers[i], media_id, FALSE))
  /\ RecordSuccess
  /\ pc' = "pace"
  /\ UNCHANGED <<inputs, environ, files, cfgvars, numbers, csv_read, media_id, net,
                 last_resp, sleeps, summarized, exit_code>>

SendTemplate ==
  /\ pc = "iter"
  /\ uses_network(config)
  /\ Truthy(tpl_name)
  /\ \E resp \in Responses :
       /\ last_resp' = resp
       /\ net' = Append(net, Call("template", i, numbers[i], NoMedia, post_raises(resp)))
       /\ IF post_raises(resp)
          THEN RecordFailure(resp) /\ pc' = "pace"
          ELSE UNCHANGED loopvars /\ pc' = "document"
  /\ UNCHANGED <<inputs, environ, files, cfgvars, numbers, csv_read, media_id,
                 simulated, sleeps, summarized, exit_code>>

SendDocument_without_asset ==
  /\ \/ pc = "document"
     \/ pc = "iter" /\ uses_network(config) /\ ~Truthy(tpl_name)
  /\ \E resp \in Responses :
       /\ last_resp' = resp
       /\ net' = Append(net, Call("document", i, numbers[i], NoMedia, post_raises(resp)))
       /\ IF post_raises(resp)
          THEN RecordFailure(resp)
          ELSE RecordSuccess
  /\ pc' = "pace"
  /\ UNCHANGED <<inputs, environ, files, cfgvars, numbers, csv_read, media_id,
                 simulated, sleeps, summarized, exit_code>>

SendDocument ==
  /\ \/ pc = "document"
     \/ pc = "iter" /\ uses_network(config) /\ ~Truthy(tpl_name)
  /\ \E resp \in Responses :
       /\ last_resp' = resp
       /\ net' = Append(net, Call("document", i, numbers[i], media_id, post_raises(resp)))
       /\ IF post_raises(resp)
          THEN RecordFailure(resp)
          ELSE RecordSuccess
  /\ pc' = "pace"
  /\ UNCHANGED <<inputs, environ, files, cfgvars, numbers, csv_read, media_id,
                 simulated, sleeps, summarized, exit_code>>

Sleep_skipped ==
  /\ pc = "pace"
  /\ i < Len(numbers)
  /\ i' = i + 1
  /\ pc' = "iter"
  /\ UNCHANGED <<inputs, environ, files, cfgvars, numbers, csv_read, media_id,
                 success_count, failure_count, failed_numbers, iovars,
                 summarized, exit_code>>

\* rate limiting: time.sleep after every recipient but the last
Sleep ==
  /\ pc = "pace"
  /\ i < Len(numbers)
  /\ sleeps' = sleeps + 1
  /\ i' = i + 1
  /\ pc' = "iter"
  /\ UNCHANGED <<inputs, environ, files, cfgvars, numbers, csv_read, media_id,
                 success_count, failure_count, failed_numbers, net, last_resp,
                 simulated, summarized, exit_code>>

EndLoop ==
  /\ pc = "pace"
  /\ ~(i < Len(numbers))
  /\ pc' = "summary"
  /\ UNCHANGED <<inputs, environ, files, cfgvars, numbers, csv_read, media_id,
                 loopvars, iovars, summarized, exit_code>>

\* the path the export is written to
failed_csv_path ==
  get_cli_flag(argv, "--failed-csv", Getenv(environ, "FAILED_CSV_PATH", <<"failed.csv">>))

\* final summary and failure export
Summary ==
  /\ pc = "summary"
  /\ summarized' = TRUE
  /\ files' = IF should_export(failure_count, config.dry_run)
              THEN [files EXCEPT ![failed_csv_path] =
                      write_failed_numbers_to_csv(files[failed_csv_path], failed_numbers)]
              ELSE files
  /\ pc' = "finish"
  /\ UNCHANGED <<inputs, environ, cfgvars, numbers, csv_read, media_id, loopvars,
                 iovars, exit_code>>

Exit ==
  /\ pc = "finish"
  /\ exit_code' = final_exit_code(failure_count)
  /\ pc' = "done"
  /\ UNCHANGED <<inputs, environ, files, cfgvars, numbers, csv_read, media_id,
                 loopvars, iovars, summarized>>

InterruptCode == 130

Interrupt_as_error ==
  /\ pc \in {"upload", "iter", "document", "pace"}
  /\ Fail
  /\ UNCHANGED <<inputs, environ, files, cfgvars, numbers, csv_read, media_id,
                 loopvars, iovars, summarized>>

\* KeyboardInterrupt while main() is uploading or in the recipient loop: in
\* the middle of a request (which is abandoned), during the pacing sleep, or
\* between two statements. It is no Exception, so the loop's handler lets it
\* through and main() exits with 130.
Interrupt ==
  /\ pc \in {"upload", "iter", "document", "pace"}
  /\ exit_code' = InterruptCode
  /\ pc' = "done"
  /\ UNCHANGED <<inputs, environ, files, cfgvars, numbers, csv_read, media_id,
                 loopvars, iovars, summarized>>

Next ==
  \/ SetupLogging
  \/ LoadEnv
  \/ CliOverrides
  \/ Gather
  \/ Validate
  \/ Normalize
  \/ LoadRecipients
  \/ DryRunUpload
  \/ UploadMedia
  \/ DryRunSend
  \/ SendTemplate
  \/ SendDocument
  \/ Sleep
  \/ EndLoop
  \/ Summary
  \/ Exit
  \/ Interrupt

Spec == Init /\ [][Next]_vars

TypeOK ==
  /\ pc \in {"start", "load_env", "cli", "gather", "validate", "normalize",
             "load_csv", "upload", "iter", "document", "pace", "summary",
             "finish", "done"}
  /\ exit_code \in {NoExit, 0, 1, InterruptCode}
  /\ success_count + failure_count <= Len(numbers)

\* ------------------------------------------------- the loader on its own
\* read_numbers_from_csv applied to recipient files of up to MaxLoaderRows
\* rows drawn from LoaderRows: valid numbers with and without punctuation,
\* blanks and extra columns, too-short numbers, text, blank fields and empty
\* lines.
MaxLoaderRows == 4

RowSeven == << <<"1", "2", "3", "4", "5", "6", "7">> >>
RowEight == << <<" ", "(", "1", "2", ")", "3", "4", "-", "5", "6", " ", "7", "8", " ">> >>
RowBlank == << <<" ", " ">>, <<"x">> >>
RowNoFirst == << <<>>, <<"x">> >>

LoaderRows == {RowA, RowB, RowBad, RowEmpty, RowSeven, RowEight, RowBlank, RowNoFirst}

InitLoader ==
  \E rows \in SeqsUpTo(LoaderRows, MaxLoaderRows) :
    StartState(BaseEnv, <<>>, <<>>, rows, NoFiles)

ReadNumbers ==
  /\ pc = "start"
  /\ csv_read' = TRUE
  /\ numbers' = read_numbers_from_csv(csv_rows)
  /\ pc' = "loaded"
  /\ UNCHANGED <<inputs, environ, files, cfgvars, media_id, loopvars, iovars,
                 summarized, exit_code>>

NextLoader == ReadNumbers

SpecLoader == InitLoader /\ [][NextLoader]_vars

\* ------------------------------------------------------------- properties
\* what happened on the wire, read off the log of network calls
Attempted(k) == \E n \in 1..Len(net) : net[n].idx = k

Raised(k) == \E n \in 1..Len(net) : net[n].idx = k /\ net[n].raised

FailedSet == {k \in 1..Len(numbers) : Raised(k)}

\* the broadcast loop has run to its end
LoopEnded == pc \in {"summary", "finish"} \/ (pc = "done" /\ summarized)

\* the configuration has been gathered from the merged environment
Gathered ==
  \/ pc \in {"validate", "normalize", "load_csv", "upload", "iter", "document",
             "pace", "summary", "finish"}
  \/ pc = "done" /\ validated

Written == \E p \in ExportPaths : files[p] # files0[p]

C2_DryRun ==
  (Gathered /\ config.dry_run) =>
    /\ net = <<>>
    /\ \A n \in 1..Len(simulated) : simulated[n].media = <<"DRY_RUN_MEDIA_ID">>
    /\ LoopEnded => Len(simulated) = Len(numbers)
    /\ files = files0

C2_Witness ==
  /\ pc = "done" /\ summarized /\ config.dry_run
  /\ Len(simulated) = 3
  /\ files0[<<"failed.csv">>].exists
  /\ exit_code = 0

\* C3: the upload fails exactly on a timeout, a status >= 300 or a body
\* without id; after a failed upload the run is over with exit code 1, no
\* send was attempted, no summary made and no export written.
C3_UploadFatal ==
  /\ (Len(net) = 1 /\ net[1].op = "upload") =>
       (net[1].raised <=>
          (last_resp.kind = "timeout" \/ last_resp.status >= 300 \/ ~last_resp.id))
  /\ (Len(net) >= 1 /\ net[1].raised) =>
       /\ Len(net) = 1
       /\ pc = "done" /\ exit_code = 1
       /\ ~summarized
       /\ files = files0

C3_Witness ==
  /\ pc = "done" /\ exit_code = 1
  /\ Len(net) = 1 /\ net[1].op = "upload"
  /\ last_resp.kind = "resp" /\ last_resp.status = 300
  /\ Len(numbers) >= 2

\* C4: when the loader returns no recipient the run is over with exit code 1
\* and neither the upload nor any send, real or simulated, has happened.
C4_NoRecipients ==
  (csv_read /\ numbers = <<>>) =>
    /\ pc = "done" /\ exit_code = 1
    /\ net = <<>> /\ simulated = <<>>
    /\ media_id = NoMedia

C4_Witness ==
  /\ pc = "done" /\ exit_code = 1
  /\ csv_read /\ numbers = <<>>
  /\ Len(csv_rows) >= 2

\* the constraints of the configuration, stated on the merged configuration
Count(e) == Cardinality({n \in 1..Len(errors) : errors[n] = e})

B2N(b) == IF b THEN 1 ELSE 0

Missing(v) == v = NoneV \/ v = <<>>

RateBad ==
  \/ config.rate \notin {<<t>> : t \in DOMAIN FloatTable}
  \/ config.rate \in {<<"-1">>}

\* C5: after validation the error list holds one entry per violated
\* constraint and nothing else; when it is not empty the run is over with a
\* non-zero exit code, the recipient file unread and no network call made.
C5_AllErrors ==
  validated =>
    /\ Count(<<"WA_PHONE_NUMBER_ID", "is required">>) = B2N(Missing(config.phone_number_id))
    /\ Count(<<"WA_ACCESS_TOKEN", "is required">>) = B2N(Missing(config.access_token))
    /\ Count(<<"CSV_PATH", "is required">>) = B2N(Missing(config.csv_path))
    /\ Count(<<"PDF_PATH", "is required">>) = B2N(Missing(config.pdf_path))
    /\ Count(ErrPdf) = B2N(~Missing(config.pdf_path) /\ config.pdf_path \notin ExistingFiles)
    /\ Count(ErrCsv) = B2N(~Missing(config.csv_path) /\ config.csv_path \notin ExistingFiles)
    /\ Count(ErrRateNeg) + Count(ErrRateNum) = B2N(RateBad)
    /\ Count(ErrTemplate) =
         B2N(~Missing(config.template) /\ ":" \notin {config.template[n] : n \in 1..Len(config.template)})
    /\ Len(errors) =
         B2N(Missing(config.phone_number_id)) + B2N(Missing(config.access_token))
         + B2N(Missing(config.csv_path)) + B2N(Missing(config.pdf_path))
         + Count(ErrPdf) + Count(ErrCsv) + B2N(RateBad) + Count(ErrTemplate)
    /\ errors # <<>> =>
         /\ pc = "done" /\ exit_code = 1
         /\ ~csv_read /\ net = <<>> /\ simulated = <<>>

C5_Witness ==
  /\ validated /\ pc = "done" /\ exit_code = 1
  /\ Len(errors) = 6
  /\ Count(ErrTemplate) = 1 /\ Count(ErrRateNum) = 1 /\ Count(ErrCsv) = 1

\* ---- the three sources of a setting, read off the inputs
InFile(k) == \E n \in 1..Len(env_lines) : env_lines[n].kind = "kv" /\ env_lines[n].k = k

LastLineOf(k) ==
  CHOOSE n \in 1..Len(env_lines) :
    /\ env_lines[n].kind = "kv" /\ env_lines[n].k = k
    /\ \A m \in (n + 1)..Len(env_lines) : ~(env_lines[m].kind = "kv" /\ env_lines[m].k = k)

FileValue(k) == StripValue(env_lines[LastLineOf(k)].v)

AllFlags ==
  {"--csv", "--pdf", "--caption", "--filename", "--rate", "--template",
   "--dry-run", "--log-level", "--failed-csv"}

KeyOfFlag(f) ==
  CASE f = "--csv" -> "CSV_PATH" [] f = "--pdf" -> "PDF_PATH"
    [] f = "--caption" -> "CAPTION" [] f = "--filename" -> "FILENAME"
    [] f = "--rate" -> "RATE" [] f = "--template" -> "TEMPLATE"
    [] f = "--dry-run" -> "DRY_RUN" [] f = "--log-level" -> "LOG_LEVEL"
    [] f = "--failed-csv" -> "FAILED_CSV_PATH"

Given(f) == \E n \in 1..Len(argv) : argv[n].name = f

FirstArg(f) ==
  argv[CHOOSE n \in 1..Len(argv) :
         argv[n].name = f /\ \A m \in 1..(n - 1) : argv[m].name # f]

OnCli(k) == \E f \in AllFlags : KeyOfFlag(f) = k /\ Given(f)

DryRunWords == {<<"1">>, <<"true">>, <<"TRUE">>, <<"True">>, <<"yes">>, <<"YES">>}

\* the setting of key k, as the run uses it, is the string v
EffectiveIs(k, v) ==
  CASE k = "WA_PHONE_NUMBER_ID" -> config.phone_number_id = v
    [] k = "WA_ACCESS_TOKEN" -> config.access_token = v
    [] k = "WA_GRAPH_VERSION" -> config.graph_ver = v
    [] k = "CSV_PATH" -> config.csv_path = v
    [] k = "PDF_PATH" -> config.pdf_path = v
    [] k = "CAPTION" -> config.caption = v
    [] k = "FILENAME" -> (v # <<>> => config.filename = v)
    [] k = "RATE" -> config.rate = v
    [] k = "TEMPLATE" -> config.template = v
    [] k = "DRY_RUN" -> config.dry_run = (v \in DryRunWords)
    [] k = "LOG_LEVEL" -> log_level = v
    [] k = "FAILED_CSV_PATH" -> failed_csv_path = v

C7_FileWins ==
  Gathered =>
    \A k \in EnvKeys :
      (environ0[k] # NoneV /\ InFile(k) /\ ~OnCli(k)) => EffectiveIs(k, FileValue(k))

PastOverrides == pc \notin {"start", "load_env", "cli", "gather"}

\* C8 as stated: every flag given on the command line, bare or as
\* --key=value, makes its command-line value the effective setting.
C8_AnyFormWins ==
  \A f \in AllFlags :
    (Given(f) /\ PastOverrides) =>
      /\ Gathered
      /\ IF f = "--dry-run"
         THEN config.dry_run = (IF FirstArg(f).eq THEN FirstArg(f).val \in DryRunWords ELSE TRUE)
         ELSE FirstArg(f).eq /\ EffectiveIs(KeyOfFlag(f), FirstArg(f).val)

\* C8 amended: a value flag given as --key=value makes that value the
\* effective setting and a bare --dry-run enables dry-run, whatever the .env
\* file and the environment hold; --dry-run=<non-empty value> enables dry-run
\* whatever the value; a bare value flag other than --failed-csv ends the run
\* with exit code 1 before the configuration is gathered.
C8_CliWins ==
  /\ Gathered =>
       \A f \in AllFlags \ {"--dry-run"} :
         (Given(f) /\ FirstArg(f).eq) => EffectiveIs(KeyOfFlag(f), FirstArg(f).val)
  /\ (Gathered /\ Given("--dry-run")
      /\ (~FirstArg("--dry-run").eq \/ FirstArg("--dry-run").val # <<>>)) => config.dry_run
  /\ \A f \in AllFlags \ {"--dry-run", "--failed-csv"} :
       (Given(f) /\ ~FirstArg(f).eq) =>
         /\ ~Gathered
         /\ pc = "done" => exit_code = 1

C8_Witness ==
  /\ Gathered /\ validated
  /\ Len(argv) >= 1 /\ argv[1] = [name |-> "--rate", eq |-> TRUE, val |-> <<"0.1">>]
  /\ InFile("RATE") /\ FileValue("RATE") = <<"2">>
  /\ config.rate = <<"0.1">> /\ config.rate_s = 1

\* C9: a run that ends after the loop exits with 1 if some recipient's send
\* raised and with 0 otherwise; a run that ends on a configuration error, an
\* empty recipient list or a failed upload exits with 1; no run in which a
\* send raised exits with 0, and no exit code is set before the run ends.
C9_ExitCode ==
  /\ pc # "done" => exit_code = NoExit
  /\ pc = "done" =>
       /\ exit_code # NoExit
       /\ summarized => exit_code = (IF FailedSet # {} THEN 1 ELSE 0)
       /\ (validated /\ errors # <<>>) => exit_code = 1
       /\ (csv_read /\ numbers = <<>>) => exit_code = 1
       /\ (Len(net) >= 1 /\ net[1].op = "upload" /\ net[1].raised) => exit_code = 1
       /\ FailedSet # {} => exit_code # 0

C9_Witness ==
  /\ pc = "done" /\ summarized
  /\ exit_code = 1
  /\ success_count = 2 /\ failure_count = 1
  /\ ~config.dry_run

NthFailed(n) == CHOOSE k \in FailedSet : Cardinality({j \in FailedSet : j < k}) = n - 1

IsDigit(c) == c \in Digits

DigitsOf(field) == SelectSeq(field, IsDigit)

\* The rows that have a first field whose digits number at least eight.
Kept(rows) ==
  {n \in 1..Len(rows) : rows[n] # <<>> /\ Len(DigitsOf(rows[n][1])) >= 8}

NthKept(rows, j) ==
  CHOOSE n \in Kept(rows) : Cardinality({m \in Kept(rows) : m < n}) = j - 1

\* The rows that have something in their first field but fewer than eight
\* digits in it.
Rejected(rows) ==
  {n \in 1..Len(rows) :
     /\ rows[n] # <<>>
     /\ \E c \in 1..Len(rows[n][1]) : rows[n][1][c] # " "
     /\ Len(DigitsOf(rows[n][1])) < 8}

\* C11: the loader returns, in file order and with duplicates kept, exactly
\* the digits of the first field of every row that has at least eight of
\* them; every number returned is eight or more digit characters and nothing
\* else, and the rows skipped with a warning are those with a non-blank first
\* field of fewer than eight digits.
C11_Loader ==
  csv_read =>
    /\ Len(numbers) = Cardinality(Kept(csv_rows))
    /\ \A j \in 1..Len(numbers) :
         /\ numbers[j] = DigitsOf(csv_rows[NthKept(csv_rows, j)][1])
         /\ Len(numbers[j]) >= 8
         /\ \A c \in 1..Len(numbers[j]) : numbers[j][c] \in Digits
    /\ invalid_count(csv_rows) = Cardinality(Rejected(csv_rows))

\* The file of the example, followed by nothing: a number with a plus sign,
\* text, a plain number and an empty line.
C11_Witness ==
  /\ csv_read
  /\ csv_rows = <<RowA, RowBad, RowB, RowEmpty>>
  /\ numbers = << <<"2", "7", "8", "2", "1", "2", "3", "4", "5", "6", "7">>,
                  <<"2", "7", "8", "2", "9", "8", "7", "6", "5", "4", "3">> >>
  /\ invalid_count(csv_rows) = 1

\* ---- C12
ColonCount(t) == Cardinality({n \in 1..Len(t) : t[n] = ":"})

\* a name part, one ':' and a language part
NameAndLang(t) ==
  /\ ColonCount(t) = 1
  /\ Len(t) >= 3
  /\ t[1] # ":" /\ t[Len(t)] # ":"

TemplateSentTo(k) == \E n \in 1..Len(net) : net[n].op = "template" /\ net[n].idx = k

\* C12: a template reference is accepted only if it is exactly a name part
\* and a language part around a single ':'; an accepted reference makes a
\* template message go to each recipient of a real run; a reference without
\* ':' is a configuration error that ends the run before any network call.
\* (Refuted: ":en_US", "promo:", ":" and "a:b:c" are accepted, and with
\* ":en_US" both recipients get the document and no template.)
C12_TemplateFormat ==
  /\ (validated /\ errors = <<>> /\ Truthy(config.template)) =>
       NameAndLang(config.template)
  /\ (LoopEnded /\ ~config.dry_run /\ Truthy(config.template)) =>
       \A k \in 1..Len(numbers) : TemplateSentTo(k)
  /\ (validated /\ Truthy(config.template) /\ ~HasColon(config.template)) =>
       (errors # <<>> /\ pc = "done" /\ exit_code = 1 /\ net = <<>>)

\* ---- C13
LastCall == net[Len(net)]

Sends == {"template", "document"}

\* the last call's recipient is the last entry of the failure list
LastCallRecordedFailed ==
  /\ failed_numbers # <<>>
  /\ failed_numbers[Len(failed_numbers)].phone_number = LastCall.to
  /\ failure_count = Len(failed_numbers)

DocumentSentTo(k) == \E n \in 1..Len(net) : net[n].op = "document" /\ net[n].idx = k

TemplateFailedFor(k) ==
  \E n \in 1..Len(net) : net[n].op = "template" /\ net[n].idx = k /\ net[n].raised

\* C14: on a real run with a template configured, every document send is
\* preceded by a template send to the same recipient that succeeded; a
\* recipient whose template send failed gets no document send and is recorded
\* as exactly one failure; without a template no template send is made.
\* (Refuted through the accepted reference ":en_US" of C12: a template is
\* configured and the documents go out with no template before them.)
C14_TemplateFirst ==
  /\ Truthy(config.template) =>
       \A n \in 1..Len(net) :
         net[n].op = "document" =>
           \E m \in 1..(n - 1) :
             net[m].op = "template" /\ net[m].idx = net[n].idx /\ ~net[m].raised
  /\ \A k \in 1..Len(numbers) :
       TemplateFailedFor(k) =>
         /\ ~DocumentSentTo(k)
         /\ Cardinality({n \in 1..Len(net) : net[n].idx = k}) = 1
  /\ failure_count = Cardinality(FailedSet)
  /\ Len(failed_numbers) = Cardinality(FailedSet)
  /\ ~Truthy(config.template) => \A n \in 1..Len(net) : net[n].op # "template"

\* ---- C15
\* the contacts made so far with recipient k: requests sent, or sends simulated
ContactsOf(k) ==
  {n \in 1..Len(net) : net[n].idx = k} \cup
  {Len(net) + n : n \in {m \in 1..Len(simulated) : simulated[m].idx = k}}

\* a step that contacts a recipient, and the contact it makes
Contacting ==
  \/ Len(net') > Len(net) /\ net'[Len(net')].op \in Sends
  \/ Len(simulated') > Len(simulated)

NewContact ==
  IF Len(simulated') > Len(simulated) THEN simulated'[Len(simulated')]
  ELSE net'[Len(net')]

C15_Step ==
  /\ Contacting =>
       \* loader order: the recipient contacted is the one the loop is at
       /\ NewContact.idx = i /\ NewContact.to = numbers[i]
       \* every earlier recipient has been contacted, none later
       /\ \A k \in 1..Len(numbers) : (k < i => ContactsOf(k) # {}) /\ (k > i => ContactsOf(k) = {})
       \* every earlier attempt has completed, as a success or as a failure
       /\ success_count + failure_count = i - 1
       \* one pause has elapsed after each earlier recipient
       /\ sleeps = i - 1
       \* no retry: a second request to a recipient is only the document
       \* send that follows its template send
       /\ ContactsOf(i) # {} =>
            /\ NewContact.op = "document"
            /\ Cardinality(ContactsOf(i)) = 1
            /\ \A n \in ContactsOf(i) : net[n].op = "template" /\ ~net[n].raised
  /\ sleeps' # sleeps =>
       \* a pause follows a completed attempt, whatever its outcome, and
       \* never the last recipient
       /\ sleeps' = sleeps + 1
       /\ success_count + failure_count = i
       /\ i < Len(numbers) /\ i' = i + 1
  /\ LoopEnded' =>
       /\ sleeps' = Len(numbers) - 1
       /\ success_count' + failure_count' = Len(numbers)
       /\ \A k \in 1..Len(numbers) : ContactsOf(k)' # {}

\* C15: recipients are contacted in loader order, each attempted once and
\* never retried; a recipient is contacted only when every earlier attempt
\* has completed and one pause per earlier recipient has elapsed; a run over N
\* recipients that reaches the end of the loop has made exactly N - 1 pauses,
\* one after every recipient but the last, whether it succeeded or failed.
C15_Pacing == [][C15_Step]_vars

\* a real run over three recipients at the end of its loop: two pauses, the
\* first recipient failed and the second succeeded
C15_Witness ==
  /\ LoopEnded /\ ~config.dry_run
  /\ Len(numbers) = 3 /\ sleeps = 2
  /\ Raised(1) /\ ~Raised(2)
  /\ success_count + failure_count = 3

\* ---- C16
Uploads == {n \in 1..Len(net) : net[n].op = "upload"}

InLoop == pc \in {"iter", "document", "pace"}

\* C16: on a real run the asset is uploaded at most once, and exactly once,
\* successfully and as the first request, before any send and while the loop
\* runs or has run; every document send carries the id that upload returned,
\* and the id held by the run is that same id throughout the loop, failed
\* sends included.
C16_Asset ==
  ~config.dry_run =>
    /\ Cardinality(Uploads) <= 1
    /\ (InLoop \/ LoopEnded \/ \E n \in 1..Len(net) : net[n].op \in Sends) =>
         /\ Uploads = {1}
         /\ ~net[1].raised
         /\ media_id = MediaId
    /\ \A n \in 1..Len(net) :
         /\ net[n].op = "document" => net[n].media = MediaId
         /\ net[n].op = "template" => net[n].media = NoMedia

\* a real run whose first recipient failed and whose second recipient was
\* then sent the document with the uploaded asset
C16_Witness ==
  /\ ~config.dry_run /\ LoopEnded
  /\ Raised(1)
  /\ \E n \in 1..Len(net) :
       net[n].op = "document" /\ net[n].idx = 2 /\ net[n].media = MediaId /\ ~net[n].raised
  /\ media_id = MediaId

\* ---- C17
C17_Step ==
  \* an interrupt can arrive in every state of the loop
  /\ InLoop => ENABLED (Next /\ exit_code' = InterruptCode)
  \* the only way out of the loop without its summary is exit code 130
  /\ (InLoop /\ pc' = "done") => exit_code' = InterruptCode
  \* the interrupted run stops at once: nobody is contacted, no summary is
  \* made and no file is written
  /\ exit_code' = InterruptCode =>
       /\ pc' = "done"
       /\ net' = net /\ simulated' = simulated /\ sleeps' = sleeps
       /\ ~summarized'
       /\ files' = files0
       /\ InterruptCode \notin {0, 1}
  \* and a run that has ended takes no further step
  /\ pc # "done"

\* C17: an interrupt can arrive at any point of the broadcast, in the middle
\* of a send or of the pacing pause; the run then ends at once with exit code
\* 130, which is neither 0 nor 1, no further recipient is contacted and no
\* failure export is written, even when earlier recipients have failed.
C17_Interrupt == [][C17_Step]_vars

\* three recipients, the first failed, the run interrupted in the middle of
\* the send to the second: exit code 130 and no export
C17_Witness ==
  /\ pc = "done" /\ exit_code = InterruptCode
  /\ ~config.dry_run
  /\ Len(numbers) = 3 /\ i = 2
  /\ failure_count = 1 /\ Raised(1)
  /\ ContactsOf(2) = {} /\ sleeps = 1
  /\ ~Written

====
